---- MODULE Spec2Model ----
(***************************************************************************)
(* kriptofs daemon (src/daemon/src/main.rs): the inode table of            *)
(* PassthroughFS and the five request handlers lookup, getattr, read,      *)
(* readdir and open, run by worker threads over a small real directory     *)
(* tree that the outside world may change.                                 *)
(*                                                                         *)
(* A path is the sequence of its components below the source root, so the  *)
(* source root is the empty sequence and PathBuf::join appends one         *)
(* component.  Each handler is cut into steps at the points where it takes *)
(* a mutex or touches the real filesystem; everything between two such     *)
(* points is local to the thread and is done in the same step.             *)
(***************************************************************************)
EXTENDS Integers, Sequences, FiniteSets, TLC

VARIABLES
    inode_map,   \* PassthroughFS.inode_map: inode number -> path
    next_inode,  \* PassthroughFS.next_inode
    map_lock,    \* holder of the inode_map mutex, or "free"
    next_lock,   \* holder of the next_inode mutex, or "free"
    th,          \* per worker thread: position in its handler and its locals
    fs,          \* the real directory tree below the source root
    fsOps,       \* number of outside changes made to the tree so far
    returned,    \* history: every <<path, inode>> get_inode has returned
    pg           \* the kernel's paginated enumeration in progress

vars == <<inode_map, next_inode, map_lock, next_lock, th, fs, fsOps, returned, pg>>

----------------------------------------------------------------------------
(* Bounds and the small universe the inputs are drawn from.                *)

MaxFsOps == 2      \* outside changes to the tree per behaviour
MaxCap == 3        \* largest reply-buffer capacity, in directory entries
MaxLen == 3        \* longest file content, in bytes
MaxOff == 4        \* largest read offset and largest read size

Threads == {"t1", "t2"}
Names == {"a", "b"}
NameOrder == <<"a", "b">>
Orders == {<<"a", "b">>, <<"b", "a">>}

Source == << >>
FsPaths == {<< >>, <<"a">>, <<"b">>, <<"a", "b">>}

O_RDONLY == 1 - 1
O_WRONLY == 1 + 0
O_RDWR == 1 + 1
O_ACCMODE == 1 + 2

S_IFMT == 15 * 4096
S_IFDIR == 4 * 4096
S_IFREG == 8 * 4096
S_IFIFO == 1 * 4096
U16 == 2 ^ 16

Join(p, n) == Append(p, n)

Range(f) == {f[x] : x \in DOMAIN f}

Min(a, b) == IF a < b THEN a ELSE b

----------------------------------------------------------------------------
(* The real filesystem.  A node is absent ("none"), a regular file, a      *)
(* directory, or a directory that can be listed but not searched           *)
(* ("dirnox": read permission without execute permission), in which the    *)
(* names are visible and nothing below can be stat'ed or opened, or a      *)
(* named pipe with a writer at its other end ("pipe"), which opens and     *)
(* cannot seek.  A directory carries the order in which the filesystem     *)
(* enumerates its names: it is the filesystem's own (hash order, newest    *)
(* first, ...), not a function of the names.                               *)

NoNode == [kind |-> "none", mode |-> 0, data |-> << >>]
DirNode == [kind |-> "dir", mode |-> S_IFDIR + 493, data |-> << >>,
            order |-> NameOrder]
DirNoxNode == [kind |-> "dirnox", mode |-> S_IFDIR + 420, data |-> << >>,
               order |-> NameOrder]
FileNode(d) == [kind |-> "file", mode |-> S_IFREG + 420, data |-> d]
PipeNode == [kind |-> "pipe", mode |-> S_IFIFO + 420, data |-> << >>]

Hello == <<104, 101, 108>>

IsDirKind(k) == k \in {"dir", "dirnox"}

\* every directory above p exists and can be searched
Reachable(f, p) ==
    /\ p \in FsPaths
    /\ \A k \in 0 .. (Len(p) - 1) : f[SubSeq(p, 1, k)].kind = "dir"

\* fs::metadata(path) and DirEntry::metadata(): the stat of a path
Metadata(f, p) ==
    IF Reachable(f, p) /\ f[p].kind # "none"
    THEN [ok |-> TRUE, is_dir |-> IsDirKind(f[p].kind), mode |-> f[p].mode,
          len |-> Len(f[p].data)]
    ELSE [ok |-> FALSE, is_dir |-> FALSE, mode |-> 0, len |-> 0]

NoMeta == [ok |-> FALSE, is_dir |-> FALSE, mode |-> 0, len |-> 0]

\* the children directory p has in tree f
Children(f, p) ==
    {n \in Names : Join(p, n) \in FsPaths /\ f[Join(p, n)].kind # "none"}

\* the trees f may be, given what it holds: directory p enumerates its
\* names in any order.  With fewer than two children no order can be told
\* from another, and one stands for all.
Relist(f, p) ==
    IF Cardinality(Children(f, p)) > 1
    THEN {[f EXCEPT ![p].order = o] : o \in Orders}
    ELSE {[f EXCEPT ![p].order = NameOrder]}

----------------------------------------------------------------------------
(* Replies and thread-local state.                                         *)

NoAttr == [ino |-> 0, size |-> 0, kind |-> "none", perm |-> 0]

NoReply == [kind |-> "none", errno |-> "", attr |-> NoAttr, gen |-> 0,
            data |-> << >>, entries |-> << >>, fh |-> 0]

ReplyError(e) == [NoReply EXCEPT !.kind = "error", !.errno = e]
ReplyEntry(a) == [NoReply EXCEPT !.kind = "entry", !.attr = a]
ReplyAttr(a) == [NoReply EXCEPT !.kind = "attr", !.attr = a]
ReplyOpened == [NoReply EXCEPT !.kind = "opened"]

Idle == [pc |-> "idle", op |-> "none", ino |-> 0, name |-> "", offset |-> 0,
         size |-> 0, flags |-> 0, cap |-> 0,
         resolved |-> FALSE, path |-> << >>,
         target |-> << >>, unseen |-> FALSE, ret |-> 0, cont |-> "",
         meta |-> NoMeta, statOk |-> FALSE,
         entries |-> << >>, idx |-> 0, cur |-> 0, dirbuf |-> << >>,
         full |-> FALSE, late |-> 0, reply |-> NoReply, replies |-> 0]

\* the kernel's side of a paginated enumeration: "off", "run" (a readdir is
\* out or due), "end" (an empty reply ended it) or "err"
NoPage == [state |-> "off", ino |-> 0, cap |-> 0, resume |-> 0, seen |-> << >>]

----------------------------------------------------------------------------
(* PassthroughFS::new                                                      *)

\* PassthroughFS::new with the counter started at the root's own number
InitTableFromOne ==
    /\ inode_map = (1 :> Source)
    /\ next_inode = 1
    /\ map_lock = "free"
    /\ next_lock = "free"
    /\ th = [t \in Threads |-> Idle]
    /\ returned = {}
    /\ fsOps = 0
    /\ pg = NoPage

InitTable ==
    /\ inode_map = (1 :> Source)
    /\ next_inode = 2
    /\ map_lock = "free"
    /\ next_lock = "free"
    /\ th = [t \in Threads |-> Idle]
    /\ returned = {}
    /\ fsOps = 0
    /\ pg = NoPage

\* the tree of the concurrent specification: root/a/b, and no root/b
Tree ==
    [p \in FsPaths |->
        IF p = <<"b">> THEN NoNode
        ELSE IF p = <<"a", "b">> THEN FileNode(Hello)
        ELSE DirNode]

Init ==
    /\ InitTable
    /\ fs \in Relist(Tree, Source)

----------------------------------------------------------------------------
(* Requests.  The inode of a request is one the table holds or the next    *)
(* one it would hand out, which stands for every number not allocated.     *)

InodeArgs == (DOMAIN inode_map) \cup {next_inode}

Begin(t, r) ==
    /\ th[t].pc = "idle"
    /\ th' = [th EXCEPT ![t] = r]
    /\ UNCHANGED <<inode_map, next_inode, map_lock, next_lock, fs, fsOps, returned, pg>>

StartLookup(t) ==
    \E parent \in InodeArgs, name \in Names :
        Begin(t, [Idle EXCEPT !.pc = "get_path", !.op = "lookup",
                              !.ino = parent, !.name = name])

StartGetattr(t) ==
    \E ino \in InodeArgs :
        Begin(t, [Idle EXCEPT !.pc = "get_path", !.op = "getattr", !.ino = ino])

StartRead(t) ==
    \E ino \in InodeArgs, offset \in {0, 2}, size \in {2} :
        Begin(t, [Idle EXCEPT !.pc = "get_path", !.op = "read", !.ino = ino,
                              !.offset = offset, !.size = size])

StartOpen(t) ==
    \E ino \in InodeArgs, flags \in {O_RDONLY, O_WRONLY, O_RDWR} :
        Begin(t, [Idle EXCEPT !.pc = "open", !.op = "open", !.ino = ino,
                              !.flags = flags])

Reply(l, r) == [l EXCEPT !.pc = "done", !.reply = r, !.replies = l.replies + 1]

----------------------------------------------------------------------------
(* PassthroughFS::get_path                                                 *)

get_path(map, ino) ==
    IF ino \in DOMAIN map
    THEN [ok |-> TRUE, path |-> map[ino]]
    ELSE [ok |-> FALSE, path |-> << >>]

\* where a handler goes once get_path has answered: None is ENOENT in all
\* four handlers
AfterPath(l, r) ==
    IF ~r.ok
    THEN Reply(l, ReplyError("ENOENT"))
    ELSE IF l.op = "lookup"
    THEN [l EXCEPT !.pc = "stat", !.resolved = TRUE, !.path = r.path,
                   !.target = Join(r.path, l.name)]
    ELSE IF l.op = "getattr"
    THEN [l EXCEPT !.pc = "stat", !.resolved = TRUE, !.path = r.path,
                   !.target = r.path]
    ELSE IF l.op = "read"
    THEN [l EXCEPT !.pc = "rd_io", !.resolved = TRUE, !.path = r.path]
    ELSE [l EXCEPT !.pc = "dir_read", !.resolved = TRUE, !.path = r.path]

\* get_path that enters an inode it does not find, with the source root as
\* its path
GetPathOrInsert(t) ==
    /\ th[t].pc = "get_path"
    /\ map_lock = "free"
    /\ inode_map' = [i \in DOMAIN inode_map \cup {th[t].ino} |->
                        IF i \in DOMAIN inode_map THEN inode_map[i] ELSE Source]
    /\ th' = [th EXCEPT ![t] = AfterPath(th[t], get_path(inode_map', th[t].ino))]
    /\ UNCHANGED <<next_inode, map_lock, next_lock, fs, fsOps, returned, pg>>

\* get_path: the mutex is taken, the entry cloned and the guard dropped
GetPath(t) ==
    /\ th[t].pc = "get_path"
    /\ map_lock = "free"
    /\ th' = [th EXCEPT ![t] = AfterPath(th[t], get_path(inode_map, th[t].ino))]
    /\ UNCHANGED <<inode_map, next_inode, map_lock, next_lock, fs, fsOps, returned, pg>>

----------------------------------------------------------------------------
(* PassthroughFS::get_file_attr                                            *)

\* an attribute record with the inode fixed to the root's
FileAttrRootIno(m, ino) ==
    [ino |-> 1,
     size |-> m.len,
     kind |-> IF m.is_dir THEN "Directory" ELSE "RegularFile",
     perm |-> m.mode % U16]

\* the FileAttr get_file_attr builds from the metadata and the inode.  What
\* is not a directory is reported as a regular file, a pipe too.
FileAttr(m, ino) ==
    [ino |-> ino,
     size |-> m.len,
     kind |-> IF m.is_dir THEN "Directory" ELSE "RegularFile",
     perm |-> m.mode % U16]

\* a call of get_inode(path) by a handler that continues at c; unseen
\* records whether the table lacked the path at the call
CallGetInode(l, path, c) ==
    [l EXCEPT !.pc = "get_inode", !.target = path, !.cont = c,
              !.unseen = (path \notin Range(inode_map))]

\* get_file_attr that goes on to get_inode and an attribute record whether
\* or not the stat succeeded
StatUnchecked(t) ==
    /\ th[t].pc = "stat"
    /\ LET m == Metadata(fs, th[t].target) IN
       th' = [th EXCEPT ![t] =
                [CallGetInode(th[t], th[t].target, "attr")
                    EXCEPT !.meta = m, !.statOk = m.ok]]
    /\ UNCHANGED <<inode_map, next_inode, map_lock, next_lock, fs, fsOps, returned, pg>>

\* get_file_attr that drops the table entry of a path whose stat fails
StatEvicting(t) ==
    /\ th[t].pc = "stat"
    /\ LET m == Metadata(fs, th[t].target)
           kept == {i \in DOMAIN inode_map : inode_map[i] # th[t].target}
       IN  /\ th' = [th EXCEPT ![t] =
                       IF m.ok
                       THEN [CallGetInode(th[t], th[t].target, "attr")
                                EXCEPT !.meta = m, !.statOk = TRUE]
                       ELSE Reply(th[t], ReplyError("ENOENT"))]
           /\ inode_map' = IF m.ok THEN inode_map
                           ELSE [i \in kept |-> inode_map[i]]
    /\ UNCHANGED <<next_inode, map_lock, next_lock, fs, fsOps, returned, pg>>

\* match fs::metadata(path): Err is ENOENT, Ok goes on to get_inode
Stat(t) ==
    /\ th[t].pc = "stat"
    /\ LET m == Metadata(fs, th[t].target) IN
       th' = [th EXCEPT ![t] =
                IF m.ok
                THEN [CallGetInode(th[t], th[t].target, "attr")
                         EXCEPT !.meta = m, !.statOk = TRUE]
                ELSE Reply(th[t], ReplyError("ENOENT"))]
    /\ UNCHANGED <<inode_map, next_inode, map_lock, next_lock, fs, fsOps, returned, pg>>

----------------------------------------------------------------------------
(* Filesystem::readdir: the reply buffer and the loop over the entries     *)

\* fs::read_dir(path) collected: the names of the children, in the order
\* the real filesystem enumerates this directory
ReadDir(f, p) ==
    IF Reachable(f, p) /\ IsDirKind(f[p].kind)
    THEN [ok |-> TRUE,
          names |-> SelectSeq(f[p].order, LAMBDA n : n \in Children(f, p))]
    ELSE [ok |-> FALSE, names |-> << >>]

DirEnt(ino, off, kind, name) ==
    [ino |-> ino, offset |-> off, kind |-> kind, name |-> name]

\* ReplyDirectory::add: TRUE (full) when the entry does not fit any more, and
\* then the entry is not added.  The capacity is counted in entries.
ReplyAdd(buf, cap, e) ==
    IF Len(buf) + 1 > cap
    THEN [full |-> TRUE, buf |-> buf]
    ELSE [full |-> FALSE, buf |-> Append(buf, e)]

ReplyDir(buf) == [NoReply EXCEPT !.kind = "dir", !.entries = buf]

\* the head of the for loop: the next entry, or reply.ok() after the last
DirNext(l) ==
    IF l.idx > Len(l.entries)
    THEN Reply(l, ReplyDir(l.dirbuf))
    ELSE [l EXCEPT !.pc = "dir_entry"]

\* reply.add of a real child with the entry's own offset in place of the
\* offset of the entry after it
DirAddOwnOffset(l, ino) ==
    LET r == ReplyAdd(l.dirbuf, l.cap,
                 DirEnt(ino, l.cur,
                        IF l.meta.is_dir THEN "Directory" ELSE "RegularFile",
                        l.entries[l.idx]))
        n == IF l.full THEN l.late + 1 ELSE l.late
    IN  IF r.full
        THEN Reply([l EXCEPT !.full = TRUE, !.late = n], ReplyDir(l.dirbuf))
        ELSE DirNext([l EXCEPT !.dirbuf = r.buf, !.cur = l.cur + 1,
                               !.idx = l.idx + 1, !.late = n])

\* reply.add of a real child with the inode get_inode returned; full breaks
\* out of the loop to reply.ok()
DirAdd(l, ino) ==
    LET r == ReplyAdd(l.dirbuf, l.cap,
                 DirEnt(ino, l.cur + 1,
                        IF l.meta.is_dir THEN "Directory" ELSE "RegularFile",
                        l.entries[l.idx]))
        n == IF l.full THEN l.late + 1 ELSE l.late
    IN  IF r.full
        THEN Reply([l EXCEPT !.full = TRUE, !.late = n], ReplyDir(l.dirbuf))
        ELSE DirNext([l EXCEPT !.dirbuf = r.buf, !.cur = l.cur + 1,
                               !.idx = l.idx + 1, !.late = n])

\* readdir that compares the offset strictly, so that a listing from offset
\* 0 starts after "."
DirReadStrict(t) ==
    /\ th[t].pc = "dir_read"
    /\ LET l == th[t]
           r == ReadDir(fs, l.path)
           d1 == ReplyAdd(<< >>, l.cap, DirEnt(l.ino, 1, "Directory", "."))
           b1 == IF l.offset < 0 THEN d1.buf ELSE << >>
           d2 == ReplyAdd(b1, l.cap, DirEnt(l.ino, 2, "Directory", ".."))
           b2 == IF l.offset < 1 THEN d2.buf ELSE b1
           f1 == l.offset < 0 /\ d1.full
           f2 == f1 \/ (l.offset < 1 /\ d2.full)
       IN  th' = [th EXCEPT ![t] =
                    IF ~r.ok
                    THEN Reply(l, ReplyError("ENOENT"))
                    ELSE DirNext([l EXCEPT !.entries = r.names, !.idx = 1,
                                           !.cur = 2, !.dirbuf = b2,
                                           !.full = f2,
                                           !.late = IF f1 THEN 1 ELSE 0])]
    /\ UNCHANGED <<inode_map, next_inode, map_lock, next_lock, fs, fsOps, returned, pg>>

\* readdir that answers a path it cannot list with "." and ".." alone
DirReadLenient(t) ==
    /\ th[t].pc = "dir_read"
    /\ LET l == th[t]
           r == ReadDir(fs, l.path)
           d1 == ReplyAdd(<< >>, l.cap, DirEnt(l.ino, 1, "Directory", "."))
           b1 == IF l.offset <= 0 THEN d1.buf ELSE << >>
           d2 == ReplyAdd(b1, l.cap, DirEnt(l.ino, 2, "Directory", ".."))
           b2 == IF l.offset <= 1 THEN d2.buf ELSE b1
           f1 == l.offset <= 0 /\ d1.full
           f2 == f1 \/ (l.offset <= 1 /\ d2.full)
       IN  th' = [th EXCEPT ![t] =
                    DirNext([l EXCEPT !.entries = r.names, !.idx = 1,
                                      !.cur = 2, !.dirbuf = b2, !.full = f2,
                                      !.late = IF f1 THEN 1 ELSE 0])]
    /\ UNCHANGED <<inode_map, next_inode, map_lock, next_lock, fs, fsOps, returned, pg>>

\* fs::read_dir, then "." and ".." whose add results are dropped: full
\* records that an add reported the buffer full, late counts the adds
\* attempted after that
DirRead(t) ==
    /\ th[t].pc = "dir_read"
    /\ LET l == th[t]
           r == ReadDir(fs, l.path)
           d1 == ReplyAdd(<< >>, l.cap, DirEnt(l.ino, 1, "Directory", "."))
           b1 == IF l.offset <= 0 THEN d1.buf ELSE << >>
           d2 == ReplyAdd(b1, l.cap, DirEnt(l.ino, 2, "Directory", ".."))
           b2 == IF l.offset <= 1 THEN d2.buf ELSE b1
           f1 == l.offset <= 0 /\ d1.full
           f2 == f1 \/ (l.offset <= 1 /\ d2.full)
       IN  th' = [th EXCEPT ![t] =
                    IF ~r.ok
                    THEN Reply(l, ReplyError("ENOENT"))
                    ELSE DirNext([l EXCEPT !.entries = r.names, !.idx = 1,
                                           !.cur = 2, !.dirbuf = b2,
                                           !.full = f2,
                                           !.late = IF f1 THEN 1 ELSE 0])]
    /\ UNCHANGED <<inode_map, next_inode, map_lock, next_lock, fs, fsOps, returned, pg>>

\* one iteration of the loop up to its call of get_inode
DirEntry(t) ==
    /\ th[t].pc = "dir_entry"
    /\ LET l == th[t]
           p == Join(l.path, l.entries[l.idx])
           m == Metadata(fs, p)
           skip == [l EXCEPT !.cur = l.cur + 1, !.idx = l.idx + 1]
       IN  th' = [th EXCEPT ![t] =
                    IF l.offset <= l.cur /\ m.ok
                    THEN [CallGetInode(l, p, "dir_add") EXCEPT !.meta = m]
                    ELSE DirNext(skip)]
    /\ UNCHANGED <<inode_map, next_inode, map_lock, next_lock, fs, fsOps, returned, pg>>

StartReaddir(t) ==
    \E ino \in InodeArgs, offset \in {0, 2}, cap \in {2, 3} :
        Begin(t, [Idle EXCEPT !.pc = "get_path", !.op = "readdir", !.ino = ino,
                              !.offset = offset, !.cap = cap])

----------------------------------------------------------------------------
(* PassthroughFS::get_inode                                                *)

\* the caller of get_inode goes on with the inode: get_file_attr builds the
\* attribute record and lookup or getattr replies; readdir adds the entry
Resume(l, ino) ==
    IF l.cont = "attr"
    THEN Reply([l EXCEPT !.ret = ino],
               IF l.op = "lookup"
               THEN ReplyEntry(FileAttr(l.meta, ino))
               ELSE ReplyAttr(FileAttr(l.meta, ino)))
    ELSE DirAdd([l EXCEPT !.ret = ino], ino)

\* get_inode whose scan never matches: every call allocates
GiScanNoHit(t) ==
    /\ th[t].pc = "get_inode"
    /\ map_lock = "free"
    /\ th' = [th EXCEPT ![t].pc = "gi_next"]
    /\ map_lock' = t
    /\ UNCHANGED <<inode_map, next_inode, next_lock, fs, fsOps, returned, pg>>

\* get_inode that drops the inode_map guard after a scan without a hit and
\* allocates outside the critical section
GiScanUnlocked(t) ==
    /\ th[t].pc = "get_inode"
    /\ map_lock = "free"
    /\ IF \E i \in DOMAIN inode_map : inode_map[i] = th[t].target
       THEN \E i \in DOMAIN inode_map :
                /\ inode_map[i] = th[t].target
                /\ th' = [th EXCEPT ![t] = Resume(th[t], i)]
                /\ returned' = returned \cup {<<th[t].target, i>>}
       ELSE /\ th' = [th EXCEPT ![t].pc = "gi_next"]
            /\ UNCHANGED returned
    /\ UNCHANGED <<inode_map, next_inode, map_lock, next_lock, fs, fsOps, pg>>

\* the inode_map mutex is taken and the table scanned for the path: a hit
\* returns the inode (the guard is dropped), a miss keeps the mutex
GiScan(t) ==
    /\ th[t].pc = "get_inode"
    /\ map_lock = "free"
    /\ IF \E i \in DOMAIN inode_map : inode_map[i] = th[t].target
       THEN \E i \in DOMAIN inode_map :
                /\ inode_map[i] = th[t].target
                /\ th' = [th EXCEPT ![t] = Resume(th[t], i)]
                /\ returned' = returned \cup {<<th[t].target, i>>}
                /\ UNCHANGED map_lock
       ELSE /\ th' = [th EXCEPT ![t].pc = "gi_next"]
            /\ map_lock' = t
            /\ UNCHANGED returned
    /\ UNCHANGED <<inode_map, next_inode, next_lock, fs, fsOps, pg>>

\* get_inode that reads the counter and does not advance it
GiAllocNoIncrement(t) ==
    /\ th[t].pc = "gi_next"
    /\ next_lock = "free"
    /\ next_lock' = t
    /\ th' = [th EXCEPT ![t].pc = "gi_insert", ![t].ret = next_inode]
    /\ UNCHANGED <<inode_map, next_inode, map_lock, fs, fsOps, returned, pg>>

\* get_inode that advances the counter by two
GiAllocByTwo(t) ==
    /\ th[t].pc = "gi_next"
    /\ next_lock = "free"
    /\ next_lock' = t
    /\ th' = [th EXCEPT ![t].pc = "gi_insert", ![t].ret = next_inode]
    /\ next_inode' = next_inode + 2
    /\ UNCHANGED <<inode_map, map_lock, fs, fsOps, returned, pg>>

\* the next_inode mutex is taken; let ino = *next; *next += 1
GiAlloc(t) ==
    /\ th[t].pc = "gi_next"
    /\ next_lock = "free"
    /\ next_lock' = t
    /\ th' = [th EXCEPT ![t].pc = "gi_insert", ![t].ret = next_inode]
    /\ next_inode' = next_inode + 1
    /\ UNCHANGED <<inode_map, map_lock, fs, fsOps, returned, pg>>

\* HashMap::insert: the key's old value, if any, is replaced
MapInsert(map, ino, path) ==
    [i \in (DOMAIN map) \cup {ino} |-> IF i = ino THEN path ELSE map[i]]

\* get_inode that returns with both guards still held
GiInsertKeepsGuards(t) ==
    /\ th[t].pc = "gi_insert"
    /\ inode_map' = MapInsert(inode_map, th[t].ret, th[t].target)
    /\ returned' = returned \cup {<<th[t].target, th[t].ret>>}
    /\ th' = [th EXCEPT ![t] = Resume(th[t], th[t].ret)]
    /\ UNCHANGED <<next_inode, map_lock, next_lock, fs, fsOps, pg>>

\* map.insert(ino, path); ino is returned and both guards are dropped
GiInsert(t) ==
    /\ th[t].pc = "gi_insert"
    /\ inode_map' = MapInsert(inode_map, th[t].ret, th[t].target)
    /\ returned' = returned \cup {<<th[t].target, th[t].ret>>}
    /\ map_lock' = IF map_lock = t THEN "free" ELSE map_lock
    /\ next_lock' = IF next_lock = t THEN "free" ELSE next_lock
    /\ th' = [th EXCEPT ![t] = Resume(th[t], th[t].ret)]
    /\ UNCHANGED <<next_inode, fs, fsOps, pg>>

----------------------------------------------------------------------------
(* Filesystem::read                                                        *)

ReplyData(d) == [NoReply EXCEPT !.kind = "data", !.data = d]

\* read without the seek: the bytes come from the start of the file
ReadFileNoSeek(f, p, offset, size) ==
    IF ~(Reachable(f, p) /\ f[p].kind # "none")
    THEN ReplyError("ENOENT")
    ELSE IF IsDirKind(f[p].kind)
    THEN ReplyError("EIO")
    ELSE ReplyData(SubSeq(f[p].data, 1, Min(size, Len(f[p].data))))

\* read that answers every failure, of open, seek or read, with ENOENT
ReadFileAllNotFound(f, p, offset, size) ==
    IF ~(Reachable(f, p) /\ f[p].kind = "file")
    THEN ReplyError("ENOENT")
    ELSE LET s == Len(f[p].data)
             n == IF offset >= s THEN 0 ELSE Min(size, s - offset)
         IN  ReplyData(SubSeq(f[p].data, offset + 1, offset + n))

\* File::open, seek(SeekFrom::Start(offset as u64)), one read into a buffer
\* of size bytes, truncated to the bytes read.  A directory opens and then
\* fails to read; an offset that is negative as i64, or a pipe, fails to
\* seek.
ReadFile(f, p, offset, size) ==
    IF ~(Reachable(f, p) /\ f[p].kind # "none")
    THEN ReplyError("ENOENT")
    ELSE IF offset < 0 \/ f[p].kind = "pipe"
    THEN ReplyError("EIO")
    ELSE IF IsDirKind(f[p].kind)
    THEN ReplyError("EIO")
    ELSE LET s == Len(f[p].data)
             n == IF offset >= s THEN 0 ELSE Min(size, s - offset)
         IN  ReplyData(SubSeq(f[p].data, offset + 1, offset + n))

RdIo(t) ==
    /\ th[t].pc = "rd_io"
    /\ th' = [th EXCEPT ![t] =
                Reply(th[t], ReadFile(fs, th[t].path, th[t].offset, th[t].size))]
    /\ UNCHANGED <<inode_map, next_inode, map_lock, next_lock, fs, fsOps, returned, pg>>

----------------------------------------------------------------------------
(* Filesystem::open                                                        *)

\* reply.opened(0, 0), whatever the inode and the flags
Open(t) ==
    /\ th[t].pc = "open"
    /\ th' = [th EXCEPT ![t] = Reply(th[t], ReplyOpened)]
    /\ UNCHANGED <<inode_map, next_inode, map_lock, next_lock, fs, fsOps, returned, pg>>

----------------------------------------------------------------------------
\* the request is over and the worker takes the next one
Finish(t) ==
    /\ th[t].pc = "done"
    /\ pg.state # "run"
    /\ th' = [th EXCEPT ![t] = Idle]
    /\ UNCHANGED <<inode_map, next_inode, map_lock, next_lock, fs, fsOps, returned, pg>>

\* the steps of a request once it has started
Step(t) ==
    \/ GetPath(t)
    \/ Stat(t)
    \/ GiScan(t)
    \/ GiAlloc(t)
    \/ GiInsert(t)
    \/ DirRead(t)
    \/ DirEntry(t)
    \/ RdIo(t)
    \/ Open(t)

Next ==
    \E t \in Threads :
        \/ StartLookup(t)
        \/ StartGetattr(t)
        \/ StartRead(t)
        \/ StartReaddir(t)
        \/ StartOpen(t)
        \/ Step(t)
        \/ Finish(t)

Spec == Init /\ [][Next]_vars

----------------------------------------------------------------------------
(* The outside world: the tree below the source root changes.              *)

IsPrefix(p, q) == Len(p) <= Len(q) /\ SubSeq(q, 1, Len(p)) = p

Parent(p) == SubSeq(p, 1, Len(p) - 1)

\* rm -r of a path; the directory it was in may enumerate what is left in
\* another order
FsRemove ==
    \E p \in FsPaths \ {Source} :
        /\ fsOps < MaxFsOps
        /\ fs[p].kind # "none"
        /\ fs' \in Relist([q \in FsPaths |->
                              IF IsPrefix(p, q) THEN NoNode ELSE fs[q]],
                          Parent(p))
        /\ fsOps' = fsOps + 1
        /\ UNCHANGED <<inode_map, next_inode, map_lock, next_lock, th, returned, pg>>

\* a file, a directory or a pipe is created where there is none, at any
\* place in the order its directory enumerates
FsCreate ==
    \E p \in FsPaths \ {Source},
       n \in {DirNode, FileNode(Hello), FileNode(<< >>), PipeNode} :
        /\ fsOps < MaxFsOps
        /\ fs[p].kind = "none"
        /\ IsDirKind(fs[Parent(p)].kind)
        /\ fs' \in Relist([fs EXCEPT ![p] = n], Parent(p))
        /\ fsOps' = fsOps + 1
        /\ UNCHANGED <<inode_map, next_inode, map_lock, next_lock, th, returned, pg>>

----------------------------------------------------------------------------
(* One worker reading files of every length at every offset.               *)

Contents == {[i \in 1 .. k |-> 10 + i] : k \in 0 .. MaxLen}

InitFile ==
    /\ InitTable
    /\ \E d \in Contents :
           fs \in Relist([Tree EXCEPT ![<<"b">>] = FileNode(d)], Source)

StartReadAny(t) ==
    \E ino \in InodeArgs, offset \in 0 .. MaxOff, size \in 0 .. MaxOff :
        Begin(t, [Idle EXCEPT !.pc = "get_path", !.op = "read", !.ino = ino,
                              !.offset = offset, !.size = size])

NextFile ==
    \/ StartLookup("t1")
    \/ StartReadAny("t1")
    \/ GetPath("t1")
    \/ Stat("t1")
    \/ GiScan("t1")
    \/ GiAlloc("t1")
    \/ GiInsert("t1")
    \/ RdIo("t1")
    \/ Finish("t1")

SpecFile == InitFile /\ [][NextFile]_vars

----------------------------------------------------------------------------
(* One worker and the kernel enumerating a directory page by page: the     *)
(* first readdir has offset 0, each later one the offset of the last entry *)
(* of the reply before it, and an empty reply ends the enumeration.  The   *)
(* buffer has room for two entries at least (the kernel asks for a page).  *)

PageTrees ==
    {[p \in FsPaths |->
        IF p = Source THEN r
        ELSE IF p = <<"a">> THEN a
        ELSE IF p = <<"b">> THEN b
        ELSE IF a.kind = "dir" THEN FileNode(Hello) ELSE NoNode] :
     r \in {DirNode, DirNoxNode},
     a \in {NoNode, DirNode, FileNode(<< >>)},
     b \in {NoNode, FileNode(Hello)}}

InitPage ==
    /\ InitTable
    /\ \E g \in PageTrees : fs \in Relist(g, Source)

ReaddirRequest(ino, offset, cap) ==
    [Idle EXCEPT !.pc = "get_path", !.op = "readdir", !.ino = ino,
                 !.offset = offset, !.cap = cap]

PageStart ==
    /\ pg.state # "run"
    /\ th["t1"].pc = "idle"
    /\ \E ino \in InodeArgs, cap \in 2 .. MaxCap :
        /\ pg' = [state |-> "run", ino |-> ino, cap |-> cap, resume |-> 0,
                  seen |-> << >>]
        /\ th' = [th EXCEPT !["t1"] = ReaddirRequest(ino, 0, cap)]
    /\ UNCHANGED <<inode_map, next_inode, map_lock, next_lock, fs, fsOps, returned>>

PageCollect ==
    /\ pg.state = "run"
    /\ th["t1"].pc = "done"
    /\ LET r == th["t1"].reply IN
       IF r.kind = "error"
       THEN /\ pg' = [pg EXCEPT !.state = "err"]
            /\ th' = [th EXCEPT !["t1"] = Idle]
       ELSE IF r.entries = << >>
       THEN /\ pg' = [pg EXCEPT !.state = "end"]
            /\ th' = [th EXCEPT !["t1"] = Idle]
       ELSE LET last == r.entries[Len(r.entries)].offset IN
            /\ pg' = [pg EXCEPT !.seen = pg.seen \o r.entries, !.resume = last]
            /\ th' = [th EXCEPT !["t1"] = ReaddirRequest(pg.ino, last, pg.cap)]
    /\ UNCHANGED <<inode_map, next_inode, map_lock, next_lock, fs, fsOps, returned>>

NextPage ==
    \/ StartLookup("t1")
    \/ PageStart
    \/ PageCollect
    \/ GetPath("t1")
    \/ Stat("t1")
    \/ GiScan("t1")
    \/ GiAlloc("t1")
    \/ GiInsert("t1")
    \/ DirRead("t1")
    \/ DirEntry("t1")
    \/ Finish("t1")

SpecPage == InitPage /\ [][NextPage]_vars

----------------------------------------------------------------------------
(* One worker serving requests while the tree changes under it.            *)

NextEnv ==
    \/ StartLookup("t1")
    \/ StartGetattr("t1")
    \/ StartRead("t1")
    \/ StartReaddir("t1")
    \/ StartOpen("t1")
    \/ Step("t1")
    \/ Finish("t1")
    \/ FsRemove
    \/ FsCreate

SpecEnv == Init /\ [][NextEnv]_vars

----------------------------------------------------------------------------
(* The inode table: claims C1 to C4                                        *)

\* thread t holds, in ret, the inode get_inode returned for its target
HasIno(t) == th[t].ret # 0 /\ th[t].pc \in {"done", "dir_entry"}

\* C1: every call of get_inode for a path returns the same inode, no other
\* path ever receives that inode, and the inode -> path table is injective.
C1_StableInjective ==
    /\ \A r1 \in returned, r2 \in returned : (r1[1] = r2[1]) <=> (r1[2] = r2[2])
    /\ \A i \in DOMAIN inode_map, j \in DOMAIN inode_map :
           inode_map[i] = inode_map[j] => i = j
    /\ \A r \in returned : r[2] \in DOMAIN inode_map /\ inode_map[r[2]] = r[1]

\* a later call for a path allocated before comes back with the path's inode,
\* other paths having been allocated as well
C1_Witness ==
    \E t \in Threads :
        /\ HasIno(t) /\ th[t].pc = "done" /\ ~th[t].unseen
        /\ th[t].target # Source
        /\ Cardinality(DOMAIN inode_map) >= 3

\* C2: threads that race in get_inode for the same path not yet in the table
\* all get the same inode, the table gets one entry for the path, and the
\* counter has advanced by one for it: once the racers are through, the
\* counter is one more than the number of entries.
C2_RaceOneAllocation ==
    \A t \in Threads, u \in Threads :
        (t # u /\ HasIno(t) /\ HasIno(u) /\ th[t].target = th[u].target
              /\ th[t].unseen /\ th[u].unseen)
        => /\ th[t].ret = th[u].ret
           /\ Cardinality({i \in DOMAIN inode_map : inode_map[i] = th[t].target}) = 1
           /\ next_inode = Cardinality(DOMAIN inode_map) + 1

\* two threads have raced for the same unseen path and both hold its inode
C2_Witness ==
    \E t \in Threads, u \in Threads :
        /\ t # u /\ HasIno(t) /\ HasIno(u) /\ th[t].target = th[u].target
        /\ th[t].unseen /\ th[u].unseen

\* C3: inode 1 is the source root and the source root is inode 1, in the
\* table and in every answer of get_inode.
C3_RootIsOne ==
    /\ 1 \in DOMAIN inode_map /\ inode_map[1] = Source
    /\ \A i \in DOMAIN inode_map : inode_map[i] = Source => i = 1
    /\ \A r \in returned : (r[1] = Source) <=> (r[2] = 1)

\* get_inode has been called for the source root after other allocations
C3_Witness ==
    /\ <<Source, 1>> \in returned
    /\ Cardinality(DOMAIN inode_map) >= 2

\* C4: an allocation takes a number above every number in the table, the
\* first one takes 2, and an entry once made keeps its path (no number is
\* handed out for a second path).
C4_IncreasingNoReuse ==
    [][/\ \A i \in (DOMAIN inode_map') \ (DOMAIN inode_map) :
              /\ i >= 2
              /\ \A j \in DOMAIN inode_map : i > j
       /\ (DOMAIN inode_map = {1} /\ inode_map' # inode_map)
              => DOMAIN inode_map' = {1, 2}
       /\ \A i \in DOMAIN inode_map :
              i \in DOMAIN inode_map' /\ inode_map'[i] = inode_map[i]]_vars

\* two allocations have been made: 2 and then 3
C4_Witness == DOMAIN inode_map = {1, 2, 3} /\ next_inode = 4

----------------------------------------------------------------------------
(* open and lookup: claims C5 and C9                                       *)

\* C5: open succeeds for O_RDONLY and fails with PermissionDenied (EACCES)
\* when the access mode of the flags is O_WRONLY or O_RDWR.
C5_OpenReadOnly ==
    \A t \in Threads :
        (th[t].pc = "done" /\ th[t].op = "open")
        => IF th[t].flags % (O_ACCMODE + 1) = O_RDONLY
           THEN th[t].reply.kind = "opened"
           ELSE th[t].reply = ReplyError("EACCES")

\* C9: lookup(parent, name) is ENOENT when the parent is not in the table or
\* parent_path/name cannot be stat'ed, and otherwise an entry reply with the
\* attributes of that path.  (The tree does not change in this
\* specification, so the stat of the path is the stat of it now.)
C9_LookupNotFound ==
    \A t \in Threads :
        (th[t].pc = "done" /\ th[t].op = "lookup")
        => LET l == th[t]
               m == Metadata(fs, Join(l.path, l.name))
           IN  IF ~l.resolved \/ ~m.ok
               THEN l.reply = ReplyError("ENOENT")
               ELSE /\ l.reply.kind = "entry"
                    /\ l.reply.attr.size = m.len
                    /\ l.reply.attr.kind =
                          (IF m.is_dir THEN "Directory" ELSE "RegularFile")
                    /\ l.reply.attr.ino \in DOMAIN inode_map
                    /\ inode_map[l.reply.attr.ino] = Join(l.path, l.name)

\* one lookup of a resolved parent has failed at the stat and another has
\* returned an entry, for a path below a directory that is not the root
C9_Witness ==
    /\ th["t1"].pc = "done" /\ th["t1"].op = "lookup"
    /\ th["t1"].resolved /\ th["t1"].reply = ReplyError("ENOENT")
    /\ th["t2"].pc = "done" /\ th["t2"].op = "lookup"
    /\ th["t2"].reply.kind = "entry" /\ th["t2"].reply.attr.ino = 3

----------------------------------------------------------------------------
(* Attributes, readdir and read: claims C6, C7, C8 and C10                 *)

\* C6: the perm field of an attribute record holds permission bits only: no
\* bit of S_IFMT is set in it.
C6_PermHasNoTypeBits ==
    \A t \in Threads :
        (th[t].pc = "done" /\ th[t].reply.kind \in {"entry", "attr"})
        => (th[t].reply.attr.perm \div 4096) % 16 = 0

\* C7: a readdir from offset 0 that succeeds starts with "." (next offset 1)
\* and ".." (next offset 2), both with the directory's own inode, also when
\* the directory has no children.
C7_DotEntriesFirst ==
    \A t \in Threads :
        (th[t].pc = "done" /\ th[t].op = "readdir" /\ th[t].offset = 0
              /\ th[t].reply.kind = "dir")
        => /\ Len(th[t].reply.entries) >= 2
           /\ th[t].reply.entries[1] = DirEnt(th[t].ino, 1, "Directory", ".")
           /\ th[t].reply.entries[2] = DirEnt(th[t].ino, 2, "Directory", "..")
           /\ \A k \in 3 .. Len(th[t].reply.entries) :
                 th[t].reply.entries[k].name \in Names

\* a directory without children has been listed from offset 0
C7_Witness ==
    \E t \in Threads :
        /\ th[t].pc = "done" /\ th[t].op = "readdir" /\ th[t].offset = 0
        /\ th[t].reply.kind = "dir" /\ Len(th[t].reply.entries) = 2
        /\ th[t].entries = << >>

\* C8: read of a regular file of size S returns no bytes when offset >= S,
\* S - offset bytes when offset < S < offset + size, and size bytes
\* otherwise, and they are the file's bytes from offset on.
C8_ReadLength ==
    \A t \in Threads :
        (th[t].pc = "done" /\ th[t].op = "read" /\ th[t].resolved
              /\ Metadata(fs, th[t].path).ok /\ fs[th[t].path].kind = "file")
        => LET l == th[t]
               d == fs[l.path].data
               S == Len(d)
           IN  /\ l.reply.kind = "data"
               /\ Len(l.reply.data) =
                     (IF l.offset >= S THEN 0
                      ELSE IF l.offset + l.size > S THEN S - l.offset
                      ELSE l.size)
               /\ \A k \in 1 .. Len(l.reply.data) :
                     l.reply.data[k] = d[l.offset + k]

\* a read from inside the file that runs into its end
C8_Witness ==
    \E t \in Threads :
        /\ th[t].pc = "done" /\ th[t].op = "read" /\ th[t].reply.kind = "data"
        /\ th[t].offset > 0
        /\ Len(th[t].reply.data) > 0
        /\ Len(th[t].reply.data) < th[t].size

NamesOf(es) == [k \in 1 .. Len(es) |-> es[k].name]

\* readdir(inode, k) emits no entry whose own offset (the one before its
\* next-offset) is below k
NoEntryBelowResume ==
    \A t \in Threads :
        (th[t].pc = "done" /\ th[t].op = "readdir")
        => \A k \in 1 .. Len(th[t].reply.entries) :
               th[t].reply.entries[k].offset - 1 >= th[t].offset

\* C10 as stated: no entry below the resume offset, and a finished
\* enumeration of an unchanged directory has yielded ".", ".." and every
\* real child once, in enumeration order.
C10_EveryChildOnce ==
    /\ NoEntryBelowResume
    /\ pg.state = "end"
       => NamesOf(pg.seen) =
             <<".", "..">> \o ReadDir(fs, inode_map[pg.ino]).names

\* what the enumeration does yield: the children whose metadata can be
\* read, once each and in order; a child whose DirEntry::metadata() fails
\* is dropped from the listing, against C10.
C10_EveryStatableChildOnce ==
    /\ NoEntryBelowResume
    /\ pg.state = "end"
       => LET dir == inode_map[pg.ino] IN
          /\ NamesOf(pg.seen) =
                <<".", "..">> \o
                SelectSeq(ReadDir(fs, dir).names,
                          LAMBDA n : Metadata(fs, Join(dir, n)).ok)
          /\ \A k \in 1 .. (Len(pg.seen) - 1) :
                 pg.seen[k].offset < pg.seen[k + 1].offset

\* an enumeration of two children has finished after several replies of a
\* buffer too small for the whole listing
C10_Witness ==
    /\ pg.state = "end" /\ pg.cap = 2
    /\ NamesOf(pg.seen) = <<".", "..", "a", "b">>

----------------------------------------------------------------------------
\* C11: a read of an inode the table does not hold, or of a path that
\* cannot be opened, is answered with ENOENT; once the file is open, a seek
\* that fails (a pipe) or a read that fails (a directory) is answered with
\* EIO, and a regular file with data; the request is answered exactly once,
\* at the step that ends it.
C11_ReadErrors ==
    [][\A t \in Threads :
         LET l == th[t]
             r == th'[t].reply
             opened == Reachable(fs, l.path) /\ fs[l.path].kind # "none"
         IN  /\ (th'[t].op = "read" /\ th'[t].pc # "done")
                    => th'[t].replies = 0
             /\ (l.op = "read" /\ l.pc # "done" /\ th'[t].pc = "done") =>
                    /\ th'[t].replies = 1
                    /\ l.pc \in {"get_path", "rd_io"}
                    /\ l.pc = "get_path" =>
                           l.ino \notin DOMAIN inode_map /\ r = ReplyError("ENOENT")
                    /\ l.pc = "rd_io" =>
                           /\ l.resolved
                           /\ ~opened => r = ReplyError("ENOENT")
                           /\ (opened /\ fs[l.path].kind # "file")
                                  => r = ReplyError("EIO")
                           /\ (opened /\ fs[l.path].kind = "file")
                                  => r.kind = "data"
      ]_vars

\* a read of a pipe, which opened and could not seek, answered with EIO
C11_Witness ==
    /\ th["t1"].op = "read" /\ th["t1"].pc = "done"
    /\ th["t1"].resolved
    /\ fs[th["t1"].path].kind = "pipe"
    /\ th["t1"].reply = ReplyError("EIO")
    /\ th["t1"].replies = 1

----------------------------------------------------------------------------
\* C12: a readdir of an inode the table does not hold, or of a path that
\* fs::read_dir cannot list, ends at that step with ENOENT, with nothing in
\* the reply buffer, no call of get_inode and the table and the counter as
\* they were; and a readdir fails in these two cases only.
C12_ReaddirNotFound ==
    [][\A t \in Threads :
         LET l == th[t]
             noEntry == l.pc = "get_path" /\ l.ino \notin DOMAIN inode_map
             noList == l.pc = "dir_read" /\ ~ReadDir(fs, l.path).ok
         IN  (l.op = "readdir" /\ th'[t] # l) =>
                 /\ (noEntry \/ noList) =>
                        /\ th'[t].pc = "done"
                        /\ th'[t].reply = ReplyError("ENOENT")
                        /\ th'[t].dirbuf = << >>
                        /\ th'[t].ret = 0
                        /\ inode_map' = inode_map
                        /\ next_inode' = next_inode
                 /\ (th'[t].pc = "done" /\ th'[t].reply.kind = "error")
                        => (noEntry \/ noList)
      ]_vars

\* a readdir of an inode whose path is a regular file by now
C12_Witness ==
    /\ th["t1"].op = "readdir" /\ th["t1"].pc = "done"
    /\ th["t1"].resolved
    /\ fs[th["t1"].path].kind = "file"
    /\ th["t1"].reply = ReplyError("ENOENT")
    /\ th["t1"].ret = 0

----------------------------------------------------------------------------
\* C13: a step of a read or of an open, and the get_path step of every
\* handler, leaves inode_map and next_inode as they were; the table changes
\* only at the insert of get_inode, called by lookup, getattr or readdir,
\* and then by one entry, whose inode is new.
C13_OnlyGetInodeAllocates ==
    [][/\ \A t \in Threads :
            (/\ th'[t] # th[t]
             /\ \/ th[t].op \in {"read", "open"}
                \/ th'[t].op \in {"read", "open"}
                \/ th[t].pc = "get_path")
                => (inode_map' = inode_map /\ next_inode' = next_inode)
       /\ (inode_map' # inode_map \/ next_inode' # next_inode) =>
            \E t \in Threads :
                /\ th'[t] # th[t]
                /\ th[t].pc \in {"gi_next", "gi_insert"}
                /\ th[t].op \in {"lookup", "getattr", "readdir"}
                /\ DOMAIN inode_map' \subseteq DOMAIN inode_map \cup {th[t].ret}
                /\ \A i \in DOMAIN inode_map : inode_map'[i] = inode_map[i]
      ]_vars

\* a read answered with data and an open answered, side by side, with the
\* table holding what lookups put there
C13_Witness ==
    /\ th["t1"].op = "read" /\ th["t1"].pc = "done"
    /\ th["t1"].reply.kind = "data"
    /\ th["t2"].op = "open" /\ th["t2"].pc = "done"
    /\ DOMAIN inode_map = {1, 2, 3} /\ next_inode = 4

----------------------------------------------------------------------------
\* C14: the table only grows: no step removes an entry or changes the path
\* of one, whatever happens to the tree.  A getattr of an inode whose path
\* is gone is answered with ENOENT and leaves the inode resolvable to the
\* same path; a lookup that succeeds for a path the table already holds,
\* re-created or not, returns the inode the table holds for it.
C14_AppendOnly ==
    [][/\ \A i \in DOMAIN inode_map :
            i \in DOMAIN inode_map' /\ inode_map'[i] = inode_map[i]
       /\ \A t \in Threads :
            LET l == th[t] IN
            /\ (/\ l.op = "getattr" /\ l.pc = "stat" /\ th'[t] # l
                /\ ~Metadata(fs, l.target).ok)
                   => /\ th'[t].reply = ReplyError("ENOENT")
                      /\ get_path(inode_map', l.ino) = [ok |-> TRUE, path |-> l.path]
            /\ (/\ l.op = "lookup" /\ l.pc # "done" /\ th'[t].pc = "done"
                /\ th'[t].reply.kind = "entry")
                   => \A i \in DOMAIN inode_map :
                          inode_map[i] = l.target => th'[t].reply.attr.ino = i
      ]_vars

\* "a" got inode 2 and "a/b" inode 3 while "a" was a directory; "a" was then
\* removed and re-created as an empty file, and a lookup of it returned 2
C14_Witness ==
    /\ DOMAIN inode_map = {1, 2, 3}
    /\ inode_map[2] = <<"a">> /\ inode_map[3] = <<"a", "b">>
    /\ fs[<<"a">>] = FileNode(<< >>)
    /\ th["t1"].op = "lookup" /\ th["t1"].pc = "done"
    /\ th["t1"].target = <<"a">>
    /\ th["t1"].reply.kind = "entry"
    /\ th["t1"].reply.attr.ino = 2
    /\ th["t1"].reply.attr.kind = "RegularFile"

----------------------------------------------------------------------------
(* One worker listing directories from every offset into reply buffers of  *)
(* every size the request may carry, down to one that takes no entry.      *)

StartReaddirAny(t) ==
    \E ino \in InodeArgs, offset \in 0 .. MaxOff, cap \in 0 .. MaxCap :
        Begin(t, ReaddirRequest(ino, offset, cap))

NextBuf ==
    \/ StartReaddirAny("t1")
    \/ GetPath("t1")
    \/ GiScan("t1")
    \/ GiAlloc("t1")
    \/ GiInsert("t1")
    \/ DirRead("t1")
    \/ DirEntry("t1")
    \/ Finish("t1")

SpecBuf == InitPage /\ [][NextBuf]_vars

\* C15: once an add has reported the reply buffer full, for ".", ".." or a
\* child, the readdir attempts no further add and has ended with the
\* successful reply that carries the entries accepted until then.
C15_StopsWhenFull ==
    \A t \in Threads :
        /\ th[t].late = 0
        /\ th[t].full =>
               /\ th[t].pc = "done"
               /\ th[t].reply = ReplyDir(th[t].dirbuf)

----------------------------------------------------------------------------
\* C16: the inode a readdir of directory d reports for the child n is the
\* inode the table holds for the path d/n, and so is the inode a lookup of
\* (d, n) returns; a readdir entry and a lookup answer for the same child
\* carry the same inode, whichever of the two was served first and however
\* their steps interleave.
C16_ReaddirAgreesWithLookup ==
    \A t \in Threads :
        /\ (th[t].op = "readdir" /\ th[t].resolved) =>
               \A k \in 1 .. Len(th[t].dirbuf) :
                   LET e == th[t].dirbuf[k] IN
                   e.name \in Names =>
                       /\ get_path(inode_map, e.ino) =
                              [ok |-> TRUE, path |-> Join(th[t].path, e.name)]
                       /\ \A u \in Threads :
                              (/\ th[u].op = "lookup" /\ th[u].pc = "done"
                               /\ th[u].reply.kind = "entry"
                               /\ th[u].path = th[t].path
                               /\ th[u].name = e.name)
                                  => th[u].reply.attr.ino = e.ino
        /\ (th[t].op = "lookup" /\ th[t].pc = "done"
            /\ th[t].reply.kind = "entry") =>
               get_path(inode_map, th[t].reply.attr.ino) =
                   [ok |-> TRUE, path |-> Join(th[t].path, th[t].name)]

\* a readdir of the root and a lookup of (root, "a") that both called
\* get_inode before "a" had an inode, and report the same one
C16_Witness ==
    /\ th["t1"].op = "readdir" /\ th["t1"].pc = "done"
    /\ th["t1"].path = Source
    /\ th["t1"].target = <<"a">> /\ th["t1"].unseen
    /\ th["t2"].op = "lookup" /\ th["t2"].pc = "done"
    /\ th["t2"].target = <<"a">> /\ th["t2"].unseen
    /\ th["t2"].reply.kind = "entry"
    /\ \E k \in 1 .. Len(th["t1"].reply.entries) :
           /\ th["t1"].reply.entries[k].name = "a"
           /\ th["t1"].reply.entries[k].ino = th["t2"].reply.attr.ino

----------------------------------------------------------------------------
\* C17: a getattr of inode i that succeeds answers with an attribute record
\* whose ino is i; a lookup of (parent, name) that succeeds with inode j
\* leaves the table resolving j to the path of parent joined with name.
C17_RoundTrip ==
    \A t \in Threads :
        th[t].pc = "done" =>
            /\ (th[t].op = "getattr" /\ th[t].reply.kind = "attr")
                   => th[t].reply.attr.ino = th[t].ino
            /\ (th[t].op = "lookup" /\ th[t].reply.kind = "entry")
                   => /\ get_path(inode_map, th[t].ino).ok
                      /\ get_path(inode_map, th[t].reply.attr.ino) =
                             [ok |-> TRUE,
                              path |-> Join(get_path(inode_map, th[t].ino).path,
                                            th[t].name)]

\* a getattr of inode 3 answered with ino 3, next to a lookup of (2, "b")
\* answered with inode 3, the inode of "a/b"
C17_Witness ==
    /\ th["t1"].op = "getattr" /\ th["t1"].pc = "done"
    /\ th["t1"].ino = 3 /\ th["t1"].reply.kind = "attr"
    /\ th["t1"].reply.attr.ino = 3
    /\ th["t2"].op = "lookup" /\ th["t2"].pc = "done"
    /\ th["t2"].ino = 2 /\ th["t2"].name = "b"
    /\ th["t2"].reply.kind = "entry"
    /\ th["t2"].reply.attr.ino = 3
    /\ inode_map[2] = <<"a">> /\ inode_map[3] = <<"a", "b">>

----------------------------------------------------------------------------
\* C18: whenever no thread is inside get_inode (between taking the
\* inode_map mutex for an allocation and dropping it), the allocated inodes
\* are exactly 1 .. next_inode - 1; while a thread is between the increment
\* and the insert, the counter is one ahead and the inode it holds is the
\* missing one.
InGetInode(t) == th[t].pc \in {"gi_next", "gi_insert"}

C18_DenseInodes ==
    /\ (\A t \in Threads : ~InGetInode(t)) =>
           /\ DOMAIN inode_map = 1 .. (next_inode - 1)
           /\ Cardinality(DOMAIN inode_map) = next_inode - 1
    /\ \A t \in Threads :
           /\ th[t].pc = "gi_next" => DOMAIN inode_map = 1 .. (next_inode - 1)
           /\ th[t].pc = "gi_insert" =>
                  /\ DOMAIN inode_map = 1 .. (next_inode - 2)
                  /\ th[t].ret = next_inode - 1

\* two allocations are over, the second one just answered, and the other
\* thread has called get_inode and not entered it yet
C18_Witness ==
    /\ \A t \in Threads : ~InGetInode(t)
    /\ next_inode = 4
    /\ th["t1"].pc = "done" /\ th["t1"].ret = 3 /\ th["t1"].unseen
    /\ th["t2"].pc = "get_inode"

----------------------------------------------------------------------------
(* Two threads serving lookup, getattr and readdir under a fair scheduler  *)
(* and fair mutexes: a step that stays possible is taken, and a thread     *)
(* that finds a mutex free again and again gets it.                        *)

Fairness ==
    \A t \in Threads :
        /\ SF_vars(GetPath(t))
        /\ SF_vars(GiScan(t))
        /\ SF_vars(GiAlloc(t))
        /\ WF_vars(GiInsert(t))

\* a readdir from the start into a buffer that takes every entry
StartList(t) ==
    \E ino \in InodeArgs : Begin(t, ReaddirRequest(ino, 0, MaxCap))

\* the handlers that call get_path and then get_inode
NextLock ==
    \E t \in Threads :
        \/ StartLookup(t)
        \/ StartGetattr(t)
        \/ StartList(t)
        \/ GetPath(t)
        \/ Stat(t)
        \/ DirRead(t)
        \/ DirEntry(t)
        \/ GiScan(t)
        \/ GiAlloc(t)
        \/ GiInsert(t)
        \/ Finish(t)

SpecFair == Init /\ [][NextLock]_vars /\ Fairness

\* thread t is in a call of get_path or of get_inode
InCall(t) == th[t].pc \in {"get_path", "get_inode", "gi_next", "gi_insert"}

\* C19: the next_inode mutex is held only by the thread that holds the
\* inode_map mutex, so a thread that waits for it finds it free and no two
\* threads wait for each other; a thread holds the mutexes inside get_inode
\* only, none once the call has returned; and under fair scheduling every
\* call of get_path or get_inode returns.
C19_LocksLive ==
    /\ [](\A t \in Threads :
            /\ next_lock = t => map_lock = t
            /\ map_lock = t <=> th[t].pc \in {"gi_next", "gi_insert"}
            /\ next_lock = t <=> th[t].pc = "gi_insert"
            /\ th[t].pc = "gi_next" => next_lock = "free")
    /\ \A t \in Threads : InCall(t) ~> ~InCall(t)

\* one thread holds both mutexes while the other waits for inode_map in a
\* call of get_inode for the same path
C19_Witness ==
    /\ th["t1"].pc = "gi_insert"
    /\ map_lock = "t1" /\ next_lock = "t1"
    /\ th["t2"].pc = "get_inode"
    /\ th["t2"].target = th["t1"].target

----------------------------------------------------------------------------
\* C20: a lookup or getattr whose parent or inode the table does not hold,
\* or whose path cannot be stat'ed, ends at that step with ENOENT, without
\* a call of get_inode and with inode_map and next_inode as they were; and
\* a lookup or getattr fails in these two cases only.
C20_FailureAllocatesNothing ==
    [][\A t \in Threads :
         LET l == th[t]
             noEntry == l.pc = "get_path" /\ l.ino \notin DOMAIN inode_map
             noStat == l.pc = "stat" /\ ~Metadata(fs, l.target).ok
         IN  (l.op \in {"lookup", "getattr"} /\ th'[t] # l) =>
                 /\ (noEntry \/ noStat) =>
                        /\ th'[t].pc = "done"
                        /\ th'[t].reply = ReplyError("ENOENT")
                        /\ th'[t].ret = 0
                        /\ inode_map' = inode_map
                        /\ next_inode' = next_inode
                 /\ (th'[t].pc = "done" /\ th'[t].reply.kind = "error")
                        => (noEntry \/ noStat)
      ]_vars

\* a lookup of (1, "b") after "b" was created, got inode 2 and was removed:
\* it fails, and the counter stands where the first lookup left it
C20_Witness ==
    /\ th["t1"].op = "lookup" /\ th["t1"].pc = "done"
    /\ th["t1"].target = <<"b">>
    /\ th["t1"].reply = ReplyError("ENOENT")
    /\ DOMAIN inode_map = {1, 2} /\ next_inode = 3
    /\ inode_map[2] = <<"b">>
    /\ fs[<<"b">>] = NoNode

====
